---- MODULE Spec2Model ----
(***************************************************************************)
(* Hospital management backend: the five tables of database/init.js, the   *)
(* route handlers of routes/{auth,patients,doctors,appointments,           *)
(* medicalRecords,admins}.js working on them, and the callers (bearer      *)
(* tokens carrying a user id and a role).                                   *)
(*                                                                         *)
(* Every database statement (query/run/get of database/db.js) is one       *)
(* atomic step: SQLite runs one statement at a time.  A handler whose      *)
(* outcome depends on what other requests do between two of its awaits     *)
(* (the booking handler) is modelled statement by statement; the other     *)
(* handlers are one step each.                                              *)
(***************************************************************************)
EXTENDS Integers, FiniteSets, Sequences, Bags, TLC

VARIABLES
    users,          \* rows of table users
    patients,       \* rows of table patients
    doctors,        \* rows of table doctors
    appointments,   \* rows of table appointments
    records,        \* rows of table medical_records
    seq,            \* sqlite_sequence: the last AUTOINCREMENT id of each table
    stale,          \* tokens whose user row has been deleted since login
    reqs,           \* bag of the booking requests (POST /appointments) in flight
    pending,        \* bag of the account requests in flight, running concurrently
    now,            \* Date.now(), in milliseconds since Epoch
    codes,          \* the external id of each row, and the instant that made it
    resp            \* the response the last step sent, if it sent one

vars == <<users, patients, doctors, appointments, records, seq, stale, reqs, pending,
          now, codes, resp>>

(***************************************************************************)
(* Bounds of the model.                                                    *)
(***************************************************************************)
MaxPatients == 2
MaxDoctors == 2
MaxAppointments == 2
MaxRecords == 1
MaxAdmins == 1
MaxReq == 2
MaxUsers == 10
\* how many times the 8-digit suffix of the clock wraps around
Laps == 1

(***************************************************************************)
(* Values.                                                                 *)
(***************************************************************************)
\* SQL NULL of an INTEGER column (a JavaScript null/undefined link is falsy, as 0)
NULL == 0
\* SQL NULL of a TEXT/DATE/TIME column, and an absent query-string or body field
NullText == "NULL"
\* parseInt of a string that starts with no digit
NaN == -1

Roles == {"admin", "doctor", "customer"}
Statuses == {"scheduled", "completed", "cancelled"}
\* what a PUT body may carry as status: anything, or nothing
BodyStatuses == Statuses \cup {NullText}
Dates == {"2025-01-06"}
Times == {"09:00", "10:00"}
Names == {"Ann"}
\* what a caller may search for
SearchTerms == {"Ann", "Bob"}

\* (username, email) pairs of the requests that create a user
Creds == { <<"u1", "e1@x.org">>, <<"u2", "e2@x.org">>, <<"admin", "e2@x.org">> }

DefaultAdmin ==
    [id |-> 1, username |-> "admin", email |-> "admin@hospital.com",
     role |-> "admin", patient_id |-> NULL, doctor_id |-> NULL]

\* ids as they arrive in a JSON body or a query string
RawIds(n) == {ToString(i) : i \in 1..n}
\* and one that parseInt and SQLite read differently
RawPatientIds == RawIds(MaxPatients) \cup {"1x"}
RawDoctorIds == RawIds(MaxDoctors)

\* the numerals an id can be written as
Numerals == 1..(MaxUsers + MaxPatients + MaxDoctors)

\* the number a numeral is read as
NumeralValue ==
    [s \in {ToString(i) : i \in Numerals} |->
        CHOOSE i \in Numerals : ToString(i) = s]

\* JavaScript parseInt: the leading digits of the string
ParseInt(s) ==
    IF s \in DOMAIN NumeralValue THEN NumeralValue[s]
    ELSE IF s = "1x" THEN 1
    ELSE IF s = "10e-1" THEN 10
    ELSE NaN

\* SQLite's INTEGER affinity on a bound text parameter: a well-formed numeric
\* literal is compared by its value ('10e-1' is 1); any other string stays text,
\* and no integer equals it
SqlInt(s) ==
    IF s \in DOMAIN NumeralValue THEN NumeralValue[s]
    ELSE IF s = "10e-1" THEN 1
    ELSE NaN

\* SQL  x != y : NULL compares to nothing
SqlNe(x, y) == x # NullText /\ x # y
\* SQL  x = y
SqlEq(x, y) == x # NullText /\ x = y

(***************************************************************************)
(* Callers.                                                                *)
(***************************************************************************)
\* login signs a token with the id and role of the user row; the token
\* outlives the row
Token(u) == [id |-> u.id, role |-> u.role]
Callers == {Token(u) : u \in users} \cup stale

\* middleware authorize(...roles)
Authorize(c, roles) == c.role \in roles

\* get('SELECT patient_id FROM users WHERE id = ?'): user && user.patient_id
LinkedPatient(c) ==
    IF \E u \in users : u.id = c.id
    THEN (CHOOSE u \in users : u.id = c.id).patient_id
    ELSE NULL

\* get('SELECT doctor_id FROM users WHERE id = ?'): user && user.doctor_id
LinkedDoctor(c) ==
    IF \E u \in users : u.id = c.id
    THEN (CHOOSE u \in users : u.id = c.id).doctor_id
    ELSE NULL

\* what res.status(..).json(..) sends: the handler, the caller, the status, the
\* rows of a read, and the id the request named or created
Response(op, c, status, rows, target) ==
    [op |-> op, uid |-> c.id, role |-> c.role, status |-> status,
     rows |-> rows, target |-> target]

Anonymous == [id |-> 0, role |-> "none"]

\* a step that sends no response
NoResponse == Response("none", Anonymous, 0, {}, 0)

(***************************************************************************)
(* The clock and the external ids.  Date.now() is Epoch + now, where Epoch *)
(* is a multiple of 10^8 ms, so the last 8 digits of Date.now() are those  *)
(* of now.                                                                 *)
(***************************************************************************)
\* .slice(-8)
SuffixDigits == 8
Modulus == 10^SuffixDigits

\* the instants at which requests arrive: around each wrap of the suffix
Instants == {k * Modulus + d : k \in 0..Laps, d \in {0, 1, Modulus - 1}}
ClockStart == 0

RECURSIVE ZeroPad(_)
\* the decimal digits of n, at SuffixDigits places
ZeroPad(s) == IF Len(s) >= SuffixDigits THEN s ELSE ZeroPad("0" \o s)

\* Date.now().toString().slice(-8): the last 8 characters of the decimal string
Suffix(t) == ZeroPad(ToString(t % Modulus))

\* the number that the suffix denotes
SuffixNumber(t) == t % Modulus

\* generatePatientId() etc.: 'PAT' + Date.now().toString().slice(-8)
ExternalId(prefix, t) == prefix \o Suffix(t)

Tables == {"patients", "doctors", "appointments", "records"}
NoCodes == [t \in Tables |-> {}]

(***************************************************************************)
(* The database after initDatabase on an empty file: the default admin.    *)
(***************************************************************************)
Init ==
    /\ users = {DefaultAdmin}
    /\ patients = {}
    /\ doctors = {}
    /\ appointments = {}
    /\ records = {}
    /\ seq = [users |-> 1, patients |-> 0, doctors |-> 0, appointments |-> 0,
              records |-> 0]
    /\ stale = {}
    /\ reqs = EmptyBag
    /\ pending = EmptyBag
    /\ now = ClockStart
    /\ codes = NoCodes
    /\ resp = NoResponse

\* get('SELECT * FROM users WHERE email = ? OR username = ?')
ExistingUser(cred) == \E u \in users : u.email = cred[2] \/ u.username = cred[1]

\* The external id is 'PAT'/'DOC'/'APT'/'REC' + the last 8 digits of Date.now(),
\* and the column is UNIQUE: the INSERT is refused when a row of the table carries
\* the id generated for it (same millisecond, or a multiple of 10^8 ms apart)
IdMayCollide(table) == table # {}

\* An INSERT that binds a generated id with no UNIQUE constraint on the column
StampedUnconstrained(table, prefix, old, new) ==
    LET code == ExternalId(prefix, now)
        kept == {k \in codes[table] : \E r \in new : r.id = k.id}
        added == {r.id : r \in new} \ {r.id : r \in old}
    IN  /\ now' = now
        /\ resp'.status # 500
        /\ codes' = [codes EXCEPT
                        ![table] = kept \cup {[id |-> i, code |-> code, at |-> now] : i \in added}]

\* The external id of a handler's step that took table from old to new at the
\* present clock value: the id generated is bound to the UNIQUE column of the row
\* inserted, the INSERT throws (500) exactly when a row of the table carries that
\* id, and a deleted row takes its id with it.
Stamped(table, prefix, old, new) ==
    LET code == ExternalId(prefix, now)
        taken == \E k \in codes[table] : k.code = code
        kept == {k \in codes[table] : \E r \in new : r.id = k.id}
        added == {r.id : r \in new} \ {r.id : r \in old}
    IN  /\ now' = now
        /\ resp'.status = 500 => taken
        /\ added # {} => ~taken
        /\ codes' = [codes EXCEPT
                        ![table] = kept \cup {[id |-> i, code |-> code, at |-> now] : i \in added}]

\* time passes
Tick ==
    /\ \E t \in Instants : t > now /\ now' = t
    /\ resp' = NoResponse
    /\ UNCHANGED <<users, patients, doctors, appointments, records, seq, stale, reqs,
                   pending, codes>>

(***************************************************************************)
(* Users: register, create doctor, create admin, delete admin.             *)
(***************************************************************************)
NewUser(cred, role, pid, did) ==
    [id |-> seq.users + 1, username |-> cred[1], email |-> cred[2],
     role |-> role, patient_id |-> pid, doctor_id |-> did]

\* POST /auth/register: a patient row, then a customer user row linked to it
Register(cred, name) ==
    /\ UNCHANGED <<doctors, appointments, records, stale, reqs, pending, now, codes>>
    /\ IF ExistingUser(cred)
       THEN /\ resp' = Response("register", Anonymous, 400, {}, 0)
            /\ UNCHANGED <<users, patients, seq>>
       ELSE \/ /\ IdMayCollide(patients)
               /\ resp' = Response("register", Anonymous, 500, {}, 0)
               /\ UNCHANGED <<users, patients, seq>>
            \/ /\ seq.patients < MaxPatients
               /\ patients' = patients \cup
                      {[id |-> seq.patients + 1, first_name |-> name]}
               /\ users' = users \cup
                      {NewUser(cred, "customer", seq.patients + 1, NULL)}
               /\ seq' = [seq EXCEPT !.patients = @ + 1, !.users = @ + 1]
               /\ resp' = Response("register", Anonymous, 201, {}, seq.patients + 1)

\* POST /doctors (admin only): a doctor row, then a doctor user row linked to it
CreateDoctorHandler(c, cred) ==
    /\ UNCHANGED <<patients, appointments, records, stale, reqs, pending>>
    /\ IF ~Authorize(c, {"admin"})
       THEN /\ resp' = Response("createDoctor", c, 403, {}, 0)
            /\ UNCHANGED <<users, doctors, seq>>
       ELSE IF ExistingUser(cred)
       THEN /\ resp' = Response("createDoctor", c, 400, {}, 0)
            /\ UNCHANGED <<users, doctors, seq>>
       ELSE \/ /\ IdMayCollide(doctors)
               /\ resp' = Response("createDoctor", c, 500, {}, 0)
               /\ UNCHANGED <<users, doctors, seq>>
            \/ /\ seq.doctors < MaxDoctors
               /\ doctors' = doctors \cup {[id |-> seq.doctors + 1]}
               /\ users' = users \cup
                      {NewUser(cred, "doctor", NULL, seq.doctors + 1)}
               /\ seq' = [seq EXCEPT !.doctors = @ + 1, !.users = @ + 1]
               /\ resp' = Response("createDoctor", c, 201, {}, seq.doctors + 1)

\* POST /doctors, the clock left out: any row of the table may carry the id generated
CreateDoctor(c, cred) ==
    /\ CreateDoctorHandler(c, cred)
    /\ UNCHANGED <<now, codes>>

\* POST /doctors, at the present clock value
CreateDoctorAt(c, cred) ==
    /\ CreateDoctorHandler(c, cred)
    /\ Stamped("doctors", "DOC", doctors, doctors')

\* POST /admins (admin only): an admin user row with no link
CreateAdmin(c, cred) ==
    /\ UNCHANGED <<patients, doctors, appointments, records, stale, reqs, pending,
                   now, codes>>
    /\ IF ~Authorize(c, {"admin"})
       THEN /\ resp' = Response("createAdmin", c, 403, {}, 0)
            /\ UNCHANGED <<users, seq>>
       ELSE IF ExistingUser(cred)
       THEN /\ resp' = Response("createAdmin", c, 400, {}, 0)
            /\ UNCHANGED <<users, seq>>
       ELSE /\ Cardinality({u \in users : u.role = "admin"}) <= MaxAdmins
            /\ seq.users < MaxUsers
            /\ users' = users \cup {NewUser(cred, "admin", NULL, NULL)}
            /\ seq' = [seq EXCEPT !.users = @ + 1]
            /\ resp' = Response("createAdmin", c, 201, {}, seq.users + 1)

\* DELETE /admins/:id (admin only): the id of the path is compared with the
\* caller's by parseInt, and with the rows' by SQLite
DeleteAdmin(c, id) ==
    /\ UNCHANGED <<patients, doctors, appointments, records, seq, reqs, pending,
                   now, codes>>
    /\ IF ~Authorize(c, {"admin"})
       THEN /\ resp' = Response("deleteAdmin", c, 403, {}, SqlInt(id))
            /\ UNCHANGED <<users, stale>>
       ELSE IF ParseInt(id) = c.id
       THEN /\ resp' = Response("deleteAdmin", c, 400, {}, SqlInt(id))
            /\ UNCHANGED <<users, stale>>
       ELSE IF ~\E u \in users : u.id = SqlInt(id) /\ u.role = "admin"
       THEN /\ resp' = Response("deleteAdmin", c, 404, {}, SqlInt(id))
            /\ UNCHANGED <<users, stale>>
       ELSE /\ users' = {u \in users : u.id # SqlInt(id)}
            /\ stale' = stale \cup {Token(u) : u \in {v \in users : v.id = SqlInt(id)}}
            /\ resp' = Response("deleteAdmin", c, 200, {}, SqlInt(id))

(***************************************************************************)
(* The same three handlers statement by statement, for requests that run   *)
(* concurrently: the existing-user SELECT, the INSERT of the patient or    *)
(* doctor row, and the INSERT of the user row are separate awaits.  The    *)
(* actions above are these steps taken with no other request in between.   *)
(***************************************************************************)
Pending == BagToSet(pending)
Waits(q) == pending' = pending (+) SetToBag({q})
Moves(q, r) == pending' = (pending (-) SetToBag({q})) (+) SetToBag({r})
Done(q) == pending' = pending (-) SetToBag({q})

\* the request after its existing-user check
Signup(op, cred, name, pc) ==
    [op |-> op, cred |-> cred, name |-> name, pc |-> pc, link |-> NULL]

\* the response that ends an account request
Answer(q, status) ==
    /\ Done(q)
    /\ resp' = Response(q.op, Anonymous, status, {}, 0)

\* run('INSERT INTO users ...'): username and email are UNIQUE, so the INSERT
\* throws when either is taken by now, and the catch block answers 500
InsertUser(q, role, pid, did) ==
    IF ExistingUser(q.cred)
    THEN /\ Answer(q, 500)
         /\ UNCHANGED <<users, seq>>
    ELSE /\ users' = users \cup {NewUser(q.cred, role, pid, did)}
         /\ seq' = [seq EXCEPT !.users = @ + 1]
         /\ Answer(q, 201)

\* POST /auth/register: get('SELECT * FROM users WHERE email = ? OR username = ?')
RegisterCheck(cred, name) ==
    /\ BagCardinality(pending) < MaxReq
    /\ seq.patients + BagCardinality(pending) < MaxPatients
    /\ UNCHANGED <<users, patients, doctors, appointments, records, seq, stale, reqs,
                   now, codes>>
    /\ IF ExistingUser(cred)
       THEN /\ resp' = Response("register", Anonymous, 400, {}, 0)
            /\ UNCHANGED pending
       ELSE /\ Waits(Signup("register", cred, name, "row"))
            /\ resp' = NoResponse

\* POST /auth/register: run('INSERT INTO patients ...')
RegisterPatient(q) ==
    /\ q.op = "register" /\ q.pc = "row"
    /\ UNCHANGED <<users, doctors, appointments, records, stale, reqs, now, codes>>
    /\ \/ /\ IdMayCollide(patients)
          /\ Answer(q, 500)
          /\ UNCHANGED <<patients, seq>>
       \/ /\ patients' = patients \cup
                 {[id |-> seq.patients + 1, first_name |-> q.name]}
          /\ seq' = [seq EXCEPT !.patients = @ + 1]
          /\ Moves(q, [q EXCEPT !.pc = "user", !.link = seq.patients + 1])
          /\ resp' = NoResponse

\* POST /auth/register: run('INSERT INTO users ... patient_id')
RegisterUser(q) ==
    /\ q.op = "register" /\ q.pc = "user"
    /\ UNCHANGED <<patients, doctors, appointments, records, stale, reqs, now, codes>>
    /\ InsertUser(q, "customer", q.link, NULL)

\* POST /doctors: authorize('admin'), then the existing-user SELECT
DoctorCheck(c, cred) ==
    /\ BagCardinality(pending) < MaxReq
    /\ seq.doctors + BagCardinality(pending) < MaxDoctors
    /\ UNCHANGED <<users, patients, doctors, appointments, records, seq, stale, reqs,
                   now, codes>>
    /\ IF ~Authorize(c, {"admin"})
       THEN /\ resp' = Response("createDoctor", c, 403, {}, 0)
            /\ UNCHANGED pending
       ELSE IF ExistingUser(cred)
       THEN /\ resp' = Response("createDoctor", c, 400, {}, 0)
            /\ UNCHANGED pending
       ELSE /\ Waits(Signup("createDoctor", cred, NullText, "row"))
            /\ resp' = NoResponse

\* POST /doctors: run('INSERT INTO doctors ...')
DoctorRow(q) ==
    /\ q.op = "createDoctor" /\ q.pc = "row"
    /\ UNCHANGED <<users, patients, appointments, records, stale, reqs, now, codes>>
    /\ \/ /\ IdMayCollide(doctors)
          /\ Answer(q, 500)
          /\ UNCHANGED <<doctors, seq>>
       \/ /\ doctors' = doctors \cup {[id |-> seq.doctors + 1]}
          /\ seq' = [seq EXCEPT !.doctors = @ + 1]
          /\ Moves(q, [q EXCEPT !.pc = "user", !.link = seq.doctors + 1])
          /\ resp' = NoResponse

\* POST /doctors: run('INSERT INTO users ... doctor_id')
DoctorUser(q) ==
    /\ q.op = "createDoctor" /\ q.pc = "user"
    /\ UNCHANGED <<patients, doctors, appointments, records, stale, reqs, now, codes>>
    /\ InsertUser(q, "doctor", NULL, q.link)

\* POST /admins: authorize('admin'), then the existing-user SELECT
AdminCheck(c, cred) ==
    /\ BagCardinality(pending) < MaxReq
    /\ Cardinality({u \in users : u.role = "admin"}) + BagCardinality(pending)
          <= MaxAdmins
    /\ seq.users + BagCardinality(pending) < MaxUsers
    /\ UNCHANGED <<users, patients, doctors, appointments, records, seq, stale, reqs,
                   now, codes>>
    /\ IF ~Authorize(c, {"admin"})
       THEN /\ resp' = Response("createAdmin", c, 403, {}, 0)
            /\ UNCHANGED pending
       ELSE IF ExistingUser(cred)
       THEN /\ resp' = Response("createAdmin", c, 400, {}, 0)
            /\ UNCHANGED pending
       ELSE /\ Waits(Signup("createAdmin", cred, NullText, "user"))
            /\ resp' = NoResponse

\* POST /admins: run('INSERT INTO users ...')
AdminUser(q) ==
    /\ q.op = "createAdmin" /\ q.pc = "user"
    /\ UNCHANGED <<patients, doctors, appointments, records, stale, reqs, now, codes>>
    /\ InsertUser(q, "admin", NULL, NULL)

\* DELETE /admins/:id: authorize('admin'), the self-deletion guard, then
\* get('SELECT * FROM users WHERE id = ? AND role = ?')
AdminLookup(c, id) ==
    /\ BagCardinality(pending) < MaxReq
    /\ UNCHANGED <<users, patients, doctors, appointments, records, seq, stale, reqs,
                   now, codes>>
    /\ IF ~Authorize(c, {"admin"})
       THEN /\ resp' = Response("deleteAdmin", c, 403, {}, SqlInt(id))
            /\ UNCHANGED pending
       ELSE IF ParseInt(id) = c.id
       THEN /\ resp' = Response("deleteAdmin", c, 400, {}, SqlInt(id))
            /\ UNCHANGED pending
       ELSE IF ~\E u \in users : u.id = SqlInt(id) /\ u.role = "admin"
       THEN /\ resp' = Response("deleteAdmin", c, 404, {}, SqlInt(id))
            /\ UNCHANGED pending
       ELSE /\ Waits([op |-> "deleteAdmin", pc |-> "delete", id |-> id, by |-> c])
            /\ resp' = NoResponse

\* DELETE /admins/:id: run('DELETE FROM users WHERE id = ?') and the 200 response
AdminRemove(q) ==
    /\ q.op = "deleteAdmin" /\ q.pc = "delete"
    /\ UNCHANGED <<patients, doctors, appointments, records, seq, reqs, now, codes>>
    /\ users' = {u \in users : u.id # SqlInt(q.id)}
    /\ stale' = stale \cup {Token(u) : u \in {v \in users : v.id = SqlInt(q.id)}}
    /\ Done(q)
    /\ resp' = Response("deleteAdmin", q.by, 200, {}, SqlInt(q.id))

(***************************************************************************)
(* Patients and doctors.                                                   *)
(***************************************************************************)
\* the required fields of a patient as they arrive in a JSON body: a value, the
\* empty string, or absent
PatientBodies ==
    [first_name : Names \cup {"", NullText},
     last_name : {"Lee", "", NullText},
     date_of_birth : {"1990-01-01", "", NullText},
     gender : {"female", "", NullText}]

\* express-validator notEmpty(): an absent field is read as the empty string
NotEmpty(v) == v # NullText /\ v # ""

\* a validation chain that forgets gender
ValidPatientSansGender(b) ==
    NotEmpty(b.first_name) /\ NotEmpty(b.last_name) /\ NotEmpty(b.date_of_birth)

\* validationResult(req).isEmpty() for the four chains of POST /patients
ValidPatient(b) ==
    /\ NotEmpty(b.first_name)
    /\ NotEmpty(b.last_name)
    /\ NotEmpty(b.date_of_birth)
    /\ NotEmpty(b.gender)

GoodPatients == {b \in PatientBodies : ValidPatient(b)}

\* POST /patients: authorize('admin'), then the validation chains, then the INSERT
CreatePatientHandler(c, b) ==
    /\ UNCHANGED <<users, doctors, appointments, records, stale, reqs, pending>>
    /\ IF ~Authorize(c, {"admin"})
       THEN /\ resp' = Response("createPatient", c, 403, {}, 0)
            /\ UNCHANGED <<patients, seq>>
       ELSE IF ~ValidPatient(b)
       THEN /\ resp' = Response("createPatient", c, 400, {}, 0)
            /\ UNCHANGED <<patients, seq>>
       ELSE \/ /\ IdMayCollide(patients)
               /\ resp' = Response("createPatient", c, 500, {}, 0)
               /\ UNCHANGED <<patients, seq>>
            \/ /\ seq.patients < MaxPatients
               /\ patients' = patients \cup
                      {[id |-> seq.patients + 1, first_name |-> b.first_name]}
               /\ seq' = [seq EXCEPT !.patients = @ + 1]
               /\ resp' = Response("createPatient", c, 201, {}, seq.patients + 1)

\* POST /patients, the clock left out: any row of the table may carry the id generated
CreatePatient(c, b) ==
    /\ CreatePatientHandler(c, b)
    /\ UNCHANGED <<now, codes>>

\* POST /patients, at the present clock value
CreatePatientAt(c, b) ==
    /\ CreatePatientHandler(c, b)
    /\ Stamped("patients", "PAT", patients, patients')

\* what a PUT /patients body may carry as first_name
BodyNames == {"Bob", "Cy", NullText}

\* PUT /patients/:id: a customer passes when parseInt(:id) is the patient linked
\* to their user row; the UPDATE then binds :id as it came.  No first_name
\* violates NOT NULL when the row exists (500); no row: nothing is updated and
\* the (empty) row read back is sent with 200.
PutPatient(c, id, name) ==
    /\ UNCHANGED <<users, doctors, appointments, records, seq, stale, reqs, pending,
                   now, codes>>
    /\ IF c.role = "customer" /\
          (~(\E u \in users : u.id = c.id) \/ LinkedPatient(c) # ParseInt(id))
       THEN /\ resp' = Response("updatePatient", c, 403, {}, SqlInt(id))
            /\ UNCHANGED patients
       ELSE IF ~\E p \in patients : p.id = SqlInt(id)
       THEN /\ resp' = Response("updatePatient", c, 200, {}, SqlInt(id))
            /\ UNCHANGED patients
       ELSE IF name = NullText
       THEN /\ resp' = Response("updatePatient", c, 500, {}, SqlInt(id))
            /\ UNCHANGED patients
       ELSE /\ patients' =
                  {IF p.id = SqlInt(id) THEN [p EXCEPT !.first_name = name] ELSE p :
                       p \in patients}
            /\ resp' = Response("updatePatient", c, 200, {}, SqlInt(id))

\* DELETE /patients/:id (admin only): no foreign key is enforced (PRAGMA
\* foreign_keys is never switched on), so rows that reference the patient stay
DeletePatientHandler(c, id) ==
    /\ UNCHANGED <<users, doctors, appointments, records, seq, stale, reqs, pending>>
    /\ IF ~Authorize(c, {"admin"})
       THEN /\ resp' = Response("deletePatient", c, 403, {}, id)
            /\ UNCHANGED patients
       ELSE /\ patients' = {p \in patients : p.id # id}
            /\ resp' = Response("deletePatient", c, 200, {}, id)

\* DELETE /patients/:id, the clock left out: any row of the table may carry the id generated
DeletePatient(c, id) ==
    /\ DeletePatientHandler(c, id)
    /\ UNCHANGED <<now, codes>>

\* DELETE /patients/:id, at the present clock value
DeletePatientAt(c, id) ==
    /\ DeletePatientHandler(c, id)
    /\ Stamped("patients", "PAT", patients, patients')

\* DELETE /doctors/:id (admin only)
DeleteDoctor(c, id) ==
    /\ UNCHANGED <<users, patients, appointments, records, seq, stale, reqs, pending,
                   now, codes>>
    /\ IF ~Authorize(c, {"admin"})
       THEN /\ resp' = Response("deleteDoctor", c, 403, {}, id)
            /\ UNCHANGED doctors
       ELSE /\ doctors' = {d \in doctors : d.id # id}
            /\ resp' = Response("deleteDoctor", c, 200, {}, id)

(***************************************************************************)
(* Appointments.                                                           *)
(***************************************************************************)
\* a conflict check that forgets the status: cancelled rows keep their slot
ConflictingAnyStatus(did, date, time) ==
    {a \in appointments : a.doctor_id = did /\ a.date = date /\ a.time = time}

\* get('SELECT * FROM appointments WHERE doctor_id = ? AND appointment_date = ?
\*      AND appointment_time = ? AND status != ?', [.., 'cancelled'])
Conflicting(did, date, time) ==
    {a \in appointments : /\ a.doctor_id = did
                          /\ a.date = date
                          /\ a.time = time
                          /\ SqlNe(a.status, "cancelled")}

InFlight == BagToSet(reqs)
Goes(q, pc) == reqs' = (reqs (-) SetToBag({q})) (+) SetToBag({[q EXCEPT !.pc = pc]})
Leaves(q) == reqs' = reqs (-) SetToBag({q})

\* the response that ends a booking request
Finish(q, status, target) ==
    /\ Leaves(q)
    /\ resp' = Response("createAppointment", Anonymous, status, {}, target)

\* POST /appointments, up to its first statement on the patients table: the body
\* is validated (patient_id, doctor_id, appointment_date and appointment_time not
\* empty) and a customer may book only for the patient linked to them.  The
\* customer's user row is read here: no request
\* changes or deletes a customer's row, so when it is read makes no difference.
\* At most `most` bookings are in flight.
PostStart(c, patient, doctor, date, time, most) ==
    /\ BagCardinality(reqs) < most
    /\ seq.appointments + BagCardinality(reqs) < MaxAppointments
    /\ UNCHANGED <<users, patients, doctors, appointments, records, seq, stale, pending,
                   now, codes>>
    /\ IF ~(NotEmpty(patient) /\ NotEmpty(doctor) /\ NotEmpty(date) /\ NotEmpty(time))
       THEN /\ resp' = Response("createAppointment", c, 400, {}, 0)
            /\ UNCHANGED reqs
       ELSE IF c.role = "customer" /\ LinkedPatient(c) # ParseInt(patient)
       THEN /\ resp' = Response("createAppointment", c, 403, {}, 0)
            /\ UNCHANGED reqs
       ELSE /\ reqs' = reqs (+) SetToBag({[pc |-> "patient", patient |-> patient,
                                           doctor |-> doctor, date |-> date,
                                           time |-> time]})
            /\ resp' = NoResponse

\* get('SELECT * FROM patients WHERE id = ?', [patient_id])
PostPatient(q) ==
    /\ q.pc = "patient"
    /\ UNCHANGED <<users, patients, doctors, appointments, records, seq, stale, pending,
                   now, codes>>
    /\ IF \E p \in patients : p.id = SqlInt(q.patient)
       THEN /\ Goes(q, "doctor")
            /\ resp' = NoResponse
       ELSE Finish(q, 404, 0)

\* a booking that does not look its doctor up
PostDoctorUnchecked(q) ==
    /\ q.pc = "doctor"
    /\ UNCHANGED <<users, patients, doctors, appointments, records, seq, stale, pending,
                   now, codes>>
    /\ Goes(q, "conflict")
    /\ resp' = NoResponse

\* get('SELECT * FROM doctors WHERE id = ?', [doctor_id])
PostDoctor(q) ==
    /\ q.pc = "doctor"
    /\ UNCHANGED <<users, patients, doctors, appointments, records, seq, stale, pending,
                   now, codes>>
    /\ IF \E d \in doctors : d.id = SqlInt(q.doctor)
       THEN /\ Goes(q, "conflict")
            /\ resp' = NoResponse
       ELSE Finish(q, 404, 0)

\* the conflict check; on no conflict the handler generates the appointment id
\* and issues the INSERT
PostConflict(q) ==
    /\ q.pc = "conflict"
    /\ UNCHANGED <<users, patients, doctors, appointments, records, seq, stale, pending,
                   now, codes>>
    /\ IF Conflicting(SqlInt(q.doctor), q.date, q.time) # {}
       THEN Finish(q, 400, 0)
       ELSE /\ Goes(q, "insert")
            /\ resp' = NoResponse

NewAppointment(q) ==
    [id |-> seq.appointments + 1, patient_id |-> SqlInt(q.patient),
     doctor_id |-> SqlInt(q.doctor), date |-> q.date, time |-> q.time,
     status |-> "scheduled"]

\* run('INSERT INTO appointments ...', [.., 'scheduled']) and the 201 response
\* (the row is read back for the response body only)
PostInsertHandler(q) ==
    /\ q.pc = "insert"
    /\ UNCHANGED <<users, patients, doctors, records, stale, pending>>
    /\ \/ /\ IdMayCollide(appointments)
          /\ Finish(q, 500, 0)
          /\ UNCHANGED <<appointments, seq>>
       \/ /\ appointments' = appointments \cup {NewAppointment(q)}
          /\ seq' = [seq EXCEPT !.appointments = @ + 1]
          /\ Finish(q, 201, seq.appointments + 1)

\* POST /appointments: the INSERT, the clock left out: any row of the table may carry the id generated
PostInsert(q) ==
    /\ PostInsertHandler(q)
    /\ UNCHANGED <<now, codes>>

\* POST /appointments: the INSERT, at the present clock value
PostInsertAt(q) ==
    /\ PostInsertHandler(q)
    /\ Stamped("appointments", "APT", appointments, appointments')

\* UPDATE appointments SET appointment_date = ?, appointment_time = ?, status = ?
\* ... WHERE id = ?  with whatever the body carries
UpdatedAppointment(a, date, time, status) ==
    [a EXCEPT !.date = date, !.time = time, !.status = status]

\* an UPDATE appointments SET ... with no WHERE clause
PutAppointmentEveryRow(c, id, date, time, status) ==
    /\ UNCHANGED <<users, patients, doctors, records, seq, stale, reqs, pending,
                   now, codes>>
    /\ IF date = NullText \/ time = NullText
       THEN /\ resp' = Response("updateAppointment", c, 500, {}, id)
            /\ UNCHANGED appointments
       ELSE /\ appointments' =
                  {UpdatedAppointment(a, date, time, status) : a \in appointments}
            /\ resp' = Response("updateAppointment", c, 200, {}, id)

\* PUT /appointments/:id: any authenticated caller.  A missing date (or time)
\* violates NOT NULL when the row exists (500); no row: nothing is updated and
\* the (empty) row read back is sent with 200.
PutAppointment(c, id, date, time, status) ==
    /\ UNCHANGED <<users, patients, doctors, records, seq, stale, reqs, pending,
                   now, codes>>
    /\ IF ~\E a \in appointments : a.id = id
       THEN /\ resp' = Response("updateAppointment", c, 200, {}, id)
            /\ UNCHANGED appointments
       ELSE IF date = NullText \/ time = NullText
       THEN /\ resp' = Response("updateAppointment", c, 500, {}, id)
            /\ UNCHANGED appointments
       ELSE /\ appointments' =
                  {IF a.id = id THEN UpdatedAppointment(a, date, time, status) ELSE a :
                       a \in appointments}
            /\ resp' = Response("updateAppointment", c, 200, {}, id)

\* DELETE /appointments/:id: admin, or the customer the appointment belongs to
DeleteAppointment(c, id) ==
    /\ UNCHANGED <<users, patients, doctors, records, seq, stale, reqs, pending,
                   now, codes>>
    /\ IF c.role = "customer" /\ ~\E a \in appointments : a.id = id
       THEN /\ resp' = Response("deleteAppointment", c, 404, {}, id)
            /\ UNCHANGED appointments
       ELSE IF c.role = "customer" /\
               LinkedPatient(c) # (CHOOSE a \in appointments : a.id = id).patient_id
       THEN /\ resp' = Response("deleteAppointment", c, 403, {}, id)
            /\ UNCHANGED appointments
       ELSE IF c.role # "customer" /\ c.role # "admin"
       THEN /\ resp' = Response("deleteAppointment", c, 403, {}, id)
            /\ UNCHANGED appointments
       ELSE /\ appointments' = {a \in appointments : a.id # id}
            /\ resp' = Response("deleteAppointment", c, 200, {}, id)

(***************************************************************************)
(* Medical records.                                                        *)
(***************************************************************************)
NewRecord(patient, doctor) ==
    [id |-> seq.records + 1, patient_id |-> SqlInt(patient),
     doctor_id |-> SqlInt(doctor), diagnosis |-> NullText,
     visit_date |-> "2025-01-06"]

\* POST /medical-records (admin and doctor)
CreateRecordHandler(c, patient, doctor) ==
    /\ UNCHANGED <<users, patients, doctors, appointments, stale, reqs, pending>>
    /\ IF ~Authorize(c, {"admin", "doctor"})
       THEN /\ resp' = Response("createRecord", c, 403, {}, 0)
            /\ UNCHANGED <<records, seq>>
       ELSE IF ~\E p \in patients : p.id = SqlInt(patient)
       THEN /\ resp' = Response("createRecord", c, 404, {}, 0)
            /\ UNCHANGED <<records, seq>>
       ELSE IF ~\E d \in doctors : d.id = SqlInt(doctor)
       THEN /\ resp' = Response("createRecord", c, 404, {}, 0)
            /\ UNCHANGED <<records, seq>>
       ELSE \/ /\ IdMayCollide(records)
               /\ resp' = Response("createRecord", c, 500, {}, 0)
               /\ UNCHANGED <<records, seq>>
            \/ /\ seq.records < MaxRecords
               /\ records' = records \cup {NewRecord(patient, doctor)}
               /\ seq' = [seq EXCEPT !.records = @ + 1]
               /\ resp' = Response("createRecord", c, 201, {}, seq.records + 1)

\* POST /medical-records, the clock left out: any row of the table may carry the id generated
CreateRecord(c, patient, doctor) ==
    /\ CreateRecordHandler(c, patient, doctor)
    /\ UNCHANGED <<now, codes>>

\* POST /medical-records, at the present clock value
CreateRecordAt(c, patient, doctor) ==
    /\ CreateRecordHandler(c, patient, doctor)
    /\ Stamped("records", "REC", records, records')

\* what a PUT /medical-records body may carry as diagnosis and as visit_date
Diagnoses == {"flu", NullText}
VisitDates == {"2025-02-03", NullText}

\* PUT /medical-records/:id (admin and doctor): the UPDATE binds the body as it
\* comes.  No visit_date violates NOT NULL when the row exists (500); no row:
\* nothing is updated and the (empty) row read back is sent with 200.
PutRecord(c, id, diagnosis, visit) ==
    /\ UNCHANGED <<users, patients, doctors, appointments, seq, stale, reqs, pending,
                   now, codes>>
    /\ IF ~Authorize(c, {"admin", "doctor"})
       THEN /\ resp' = Response("updateRecord", c, 403, {}, id)
            /\ UNCHANGED records
       ELSE IF ~\E m \in records : m.id = id
       THEN /\ resp' = Response("updateRecord", c, 200, {}, id)
            /\ UNCHANGED records
       ELSE IF visit = NullText
       THEN /\ resp' = Response("updateRecord", c, 500, {}, id)
            /\ UNCHANGED records
       ELSE /\ records' =
                  {IF m.id = id
                   THEN [m EXCEPT !.diagnosis = diagnosis, !.visit_date = visit]
                   ELSE m : m \in records}
            /\ resp' = Response("updateRecord", c, 200, {}, id)

\* DELETE /medical-records/:id (admin only)
DeleteRecord(c, id) ==
    /\ UNCHANGED <<users, patients, doctors, appointments, seq, stale, reqs, pending,
                   now, codes>>
    /\ IF ~Authorize(c, {"admin"})
       THEN /\ resp' = Response("deleteRecord", c, 403, {}, id)
            /\ UNCHANGED records
       ELSE /\ records' = {m \in records : m.id # id}
            /\ resp' = Response("deleteRecord", c, 200, {}, id)

(***************************************************************************)
(* Reads.                                                                  *)
(***************************************************************************)
\* a list in which a patient_id of the query string replaces the customer's own
AppointmentsQueryByFilter(c, date, status, patient, doctor) ==
    IF c.role = "customer" /\ LinkedPatient(c) = NULL THEN {}
    ELSE IF c.role = "doctor" /\ LinkedDoctor(c) = NULL THEN {}
    ELSE {a \in appointments :
            /\ (c.role = "customer" /\ patient = NullText)
                   => a.patient_id = LinkedPatient(c)
            /\ c.role = "doctor" => a.doctor_id = LinkedDoctor(c)
            /\ date # NullText => a.date = date
            /\ status # NullText => SqlEq(a.status, status)
            /\ patient # NullText => a.patient_id = SqlInt(patient)
            /\ doctor # NullText => a.doctor_id = SqlInt(doctor)}

\* GET /appointments?date=&status=&patient_id=&doctor_id=
AppointmentsQuery(c, date, status, patient, doctor) ==
    IF c.role = "customer" /\ LinkedPatient(c) = NULL THEN {}
    ELSE IF c.role = "doctor" /\ LinkedDoctor(c) = NULL THEN {}
    ELSE {a \in appointments :
            /\ c.role = "customer" => a.patient_id = LinkedPatient(c)
            /\ c.role = "doctor" => a.doctor_id = LinkedDoctor(c)
            /\ date # NullText => a.date = date
            /\ status # NullText => SqlEq(a.status, status)
            /\ patient # NullText => a.patient_id = SqlInt(patient)
            /\ doctor # NullText => a.doctor_id = SqlInt(doctor)}

\* a list that shows every caller the rows of the doctor linked to them
RecordsQueryLinkedOnly(c, patient, doctor) ==
    IF LinkedDoctor(c) = NULL THEN {}
    ELSE {m \in records :
            /\ m.doctor_id = LinkedDoctor(c)
            /\ patient # NullText => m.patient_id = SqlInt(patient)}

\* GET /medical-records?patient_id=&doctor_id=
RecordsQuery(c, patient, doctor) ==
    IF c.role = "customer" /\ LinkedPatient(c) = NULL THEN {}
    ELSE IF c.role = "doctor" /\ LinkedDoctor(c) = NULL THEN {}
    ELSE {m \in records :
            /\ c.role = "customer" => m.patient_id = LinkedPatient(c)
            /\ c.role = "doctor" => m.doctor_id = LinkedDoctor(c)
            /\ (patient # NullText /\ c.role # "customer")
                   => m.patient_id = SqlInt(patient)
            /\ (doctor # NullText /\ c.role # "doctor")
                   => m.doctor_id = SqlInt(doctor)}

\* the default page size of GET /patients
DefaultLimit == 10
Limits == {DefaultLimit, 1}
Pages == {1, 2}

\* ORDER BY created_at DESC LIMIT limit OFFSET (page - 1) * limit
Paged(rows, page, limit) ==
    {p \in rows :
        LET before == Cardinality({q \in rows : q.id > p.id})
        IN  before >= (page - 1) * limit /\ before < (page - 1) * limit + limit}

\* GET /patients?search=&page=&limit=  (search is looked up in the names, the
\* external id and the phone; a customer's search is ignored)
PatientsQuery(c, search, page, limit) ==
    IF c.role = "customer" /\ LinkedPatient(c) = NULL THEN {}
    ELSE Paged({p \in patients :
                  /\ c.role = "customer" => p.id = LinkedPatient(c)
                  /\ (search # NullText /\ c.role # "customer")
                         => p.first_name = search},
               page, limit)

Reading ==
    UNCHANGED <<users, patients, doctors, appointments, records, seq, stale, reqs,
                pending, now, codes>>

ListAppointments(c, date, status, patient, doctor) ==
    /\ resp' = Response("listAppointments", c, 200,
                        AppointmentsQuery(c, date, status, patient, doctor), 0)
    /\ Reading

ListRecords(c, patient, doctor) ==
    /\ resp' = Response("listRecords", c, 200, RecordsQuery(c, patient, doctor), 0)
    /\ Reading

ListPatients(c, search, page, limit) ==
    /\ resp' = Response("listPatients", c, 200,
                        PatientsQuery(c, search, page, limit), 0)
    /\ Reading

\* get('SELECT ... WHERE id = ?', [req.params.id])
ById(table, id) == {x \in table : x.id = id}

\* GET /patients/:id, GET /appointments/:id, GET /medical-records/:id: the row,
\* or 404 when there is none
GetPatient(c, id) ==
    /\ resp' = Response("getPatient", c,
                        IF ById(patients, id) = {} THEN 404 ELSE 200,
                        ById(patients, id), id)
    /\ Reading

GetAppointment(c, id) ==
    /\ resp' = Response("getAppointment", c,
                        IF ById(appointments, id) = {} THEN 404 ELSE 200,
                        ById(appointments, id), id)
    /\ Reading

GetRecord(c, id) ==
    /\ resp' = Response("getRecord", c,
                        IF ById(records, id) = {} THEN 404 ELSE 200,
                        ById(records, id), id)
    /\ Reading

(***************************************************************************)
(* The system: every request any caller may send.                          *)
(***************************************************************************)
PatientIds == 1..MaxPatients
DoctorIds == 1..MaxDoctors
AppointmentIds == 1..MaxAppointments
RecordIds == 1..MaxRecords
UserIds == 1..(1 + MaxPatients + MaxDoctors + MaxAdmins)

Next ==
    \/ \E cred \in Creds, name \in Names : Register(cred, name)
    \/ \E c \in Callers, cred \in Creds : CreateDoctor(c, cred)
    \/ \E c \in Callers, cred \in Creds : CreateAdmin(c, cred)
    \/ \E cred \in Creds, name \in Names : RegisterCheck(cred, name)
    \/ \E q \in Pending : RegisterPatient(q)
    \/ \E q \in Pending : RegisterUser(q)
    \/ \E c \in Callers, cred \in Creds : DoctorCheck(c, cred)
    \/ \E q \in Pending : DoctorRow(q)
    \/ \E q \in Pending : DoctorUser(q)
    \/ \E c \in Callers, cred \in Creds : AdminCheck(c, cred)
    \/ \E q \in Pending : AdminUser(q)
    \/ \E c \in Callers, id \in UserIds : DeleteAdmin(c, ToString(id))
    \/ \E c \in Callers, id \in UserIds : AdminLookup(c, ToString(id))
    \/ \E q \in Pending : AdminRemove(q)
    \/ \E c \in Callers, b \in PatientBodies : CreatePatient(c, b)
    \/ \E c \in Callers, id \in RawPatientIds, name \in BodyNames :
          PutPatient(c, id, name)
    \/ \E c \in Callers, id \in PatientIds : DeletePatient(c, id)
    \/ \E c \in Callers, id \in DoctorIds : DeleteDoctor(c, id)
    \/ \E c \in Callers, p \in RawPatientIds, d \in RawDoctorIds, date \in Dates,
          time \in Times : PostStart(c, p, d, date, time, MaxReq)
    \/ \E q \in InFlight : PostPatient(q)
    \/ \E q \in InFlight : PostDoctor(q)
    \/ \E q \in InFlight : PostConflict(q)
    \/ \E q \in InFlight : PostInsert(q)
    \/ \E c \in Callers, id \in AppointmentIds, date \in Dates \cup {NullText},
          time \in Times \cup {NullText}, status \in BodyStatuses :
              PutAppointment(c, id, date, time, status)
    \/ \E c \in Callers, id \in AppointmentIds : DeleteAppointment(c, id)
    \/ \E c \in Callers, p \in RawPatientIds, d \in RawDoctorIds :
          CreateRecord(c, p, d)
    \/ \E c \in Callers, date \in Dates \cup {NullText},
          status \in Statuses \cup {NullText},
          p \in RawPatientIds \cup {NullText},
          d \in RawDoctorIds \cup {NullText} :
              ListAppointments(c, date, status, p, d)
    \/ \E c \in Callers, p \in RawPatientIds \cup {NullText},
          d \in RawDoctorIds \cup {NullText} : ListRecords(c, p, d)
    \/ \E c \in Callers, search \in SearchTerms \cup {NullText}, page \in Pages,
          limit \in Limits : ListPatients(c, search, page, limit)
    \/ \E c \in Callers, id \in PatientIds : GetPatient(c, id)
    \/ \E c \in Callers, id \in AppointmentIds : GetAppointment(c, id)
    \/ \E c \in Callers, id \in RecordIds : GetRecord(c, id)
    \/ \E c \in Callers, id \in RecordIds, diagnosis \in Diagnoses,
          visit \in VisitDates : PutRecord(c, id, diagnosis, visit)
    \/ \E c \in Callers, id \in RecordIds : DeleteRecord(c, id)
    \/ Tick
    \/ \E c \in Callers, b \in PatientBodies : CreatePatientAt(c, b)
    \/ \E c \in Callers, id \in PatientIds : DeletePatientAt(c, id)
    \/ \E c \in Callers, cred \in Creds : CreateDoctorAt(c, cred)
    \/ \E q \in InFlight : PostInsertAt(q)
    \/ \E c \in Callers, p \in RawPatientIds, d \in RawDoctorIds :
          CreateRecordAt(c, p, d)

Spec == Init /\ [][Next]_vars

(***************************************************************************)
(* Booking under concurrency: an admin sets up patients and a doctor, then *)
(* bookings, updates and deletes of appointments interleave.               *)
(***************************************************************************)
Admins == {c \in Callers : c.role = "admin"}

NextBooking ==
    \/ \E c \in Admins, b \in GoodPatients : CreatePatient(c, b)
    \/ \E c \in Admins : CreateDoctor(c, <<"u1", "e1@x.org">>)
    \/ \E c \in Admins, p \in RawPatientIds, d \in RawDoctorIds, date \in Dates,
          time \in Times : PostStart(c, p, d, date, time, MaxReq)
    \/ \E q \in InFlight : PostPatient(q)
    \/ \E q \in InFlight : PostDoctor(q)
    \/ \E q \in InFlight : PostConflict(q)
    \/ \E q \in InFlight : PostInsert(q)
    \/ \E c \in Admins, id \in AppointmentIds, date \in Dates \cup {NullText},
          time \in Times, status \in BodyStatuses :
              PutAppointment(c, id, date, time, status)
    \/ \E c \in Admins, id \in AppointmentIds : DeleteAppointment(c, id)

SpecBooking == Init /\ [][NextBooking]_vars

\* the same without updates and deletes: every appointment row is a booking
\* that succeeded, and stays 'scheduled'
NextRace ==
    \/ \E c \in Admins, b \in GoodPatients : CreatePatient(c, b)
    \/ \E c \in Admins : CreateDoctor(c, <<"u1", "e1@x.org">>)
    \/ \E c \in Admins, p \in RawPatientIds, d \in RawDoctorIds, date \in Dates,
          time \in Times : PostStart(c, p, d, date, time, MaxReq)
    \/ \E q \in InFlight : PostPatient(q)
    \/ \E q \in InFlight : PostDoctor(q)
    \/ \E q \in InFlight : PostConflict(q)
    \/ \E q \in InFlight : PostInsert(q)

SpecRace == Init /\ [][NextRace]_vars

(***************************************************************************)
(* What customers read: patients register, an admin adds and deletes       *)
(* patients, adds a doctor and writes records, appointments are booked one *)
(* at a time, and every customer sends every read.                         *)
(***************************************************************************)
Customers == {c \in Callers : c.role = "customer"}
Doctors == {c \in Callers : c.role = "doctor"}

\* the filters of a query string, absent or present
DateFilters == Dates \cup {NullText}
StatusFilters == {"scheduled", NullText}
PatientFilters == RawIds(MaxPatients) \cup {NullText}
DoctorFilters == RawDoctorIds \cup {NullText}

NextCustomer ==
    \/ \E cred \in Creds, name \in Names : Register(cred, name)
    \/ \E c \in Admins, b \in GoodPatients : CreatePatient(c, b)
    \/ \E c \in Admins, id \in PatientIds : DeletePatient(c, id)
    \/ \E c \in Admins : CreateDoctor(c, <<"u2", "e2@x.org">>)
    \/ \E c \in Callers, p \in RawIds(MaxPatients), d \in RawDoctorIds,
          date \in Dates, time \in Times : PostStart(c, p, d, date, time, 1)
    \/ \E q \in InFlight : PostPatient(q)
    \/ \E q \in InFlight : PostDoctor(q)
    \/ \E q \in InFlight : PostConflict(q)
    \/ \E q \in InFlight : PostInsert(q)
    \/ \E c \in Admins, p \in RawIds(MaxPatients), d \in RawDoctorIds :
          CreateRecord(c, p, d)
    \/ \E c \in Customers, date \in DateFilters, status \in StatusFilters,
          p \in PatientFilters, d \in DoctorFilters :
              ListAppointments(c, date, status, p, d)
    \/ \E c \in Customers, p \in PatientFilters, d \in DoctorFilters :
          ListRecords(c, p, d)
    \/ \E c \in Customers, search \in SearchTerms \cup {NullText}, page \in Pages,
          limit \in Limits : ListPatients(c, search, page, limit)
    \/ \E c \in Customers, id \in PatientIds : GetPatient(c, id)
    \/ \E c \in Customers, id \in AppointmentIds : GetAppointment(c, id)
    \/ \E c \in Customers, id \in RecordIds : GetRecord(c, id)

SpecCustomer == Init /\ [][NextCustomer]_vars

(***************************************************************************)
(* What doctors read: an admin adds patients and doctors, appointments are *)
(* booked one at a time, doctors and admins write records, and every       *)
(* doctor sends every read.                                                *)
(***************************************************************************)
NextDoctor ==
    \/ \E c \in Admins, b \in GoodPatients : CreatePatient(c, b)
    \/ \E c \in Admins, cred \in {<<"u1", "e1@x.org">>, <<"u2", "e2@x.org">>} :
          CreateDoctor(c, cred)
    \/ \E c \in Admins, p \in RawIds(MaxPatients), d \in RawDoctorIds,
          date \in Dates : PostStart(c, p, d, date, "09:00", 1)
    \/ \E q \in InFlight : PostPatient(q)
    \/ \E q \in InFlight : PostDoctor(q)
    \/ \E q \in InFlight : PostConflict(q)
    \/ \E q \in InFlight : PostInsert(q)
    \/ \E c \in Doctors \cup Admins, p \in RawIds(MaxPatients), d \in RawDoctorIds :
          CreateRecord(c, p, d)
    \/ \E c \in Doctors, date \in DateFilters, status \in StatusFilters,
          p \in PatientFilters, d \in DoctorFilters :
              ListAppointments(c, date, status, p, d)
    \/ \E c \in Doctors, p \in PatientFilters, d \in DoctorFilters :
          ListRecords(c, p, d)
    \/ \E c \in Doctors, search \in SearchTerms \cup {NullText}, page \in Pages,
          limit \in Limits : ListPatients(c, search, page, limit)
    \/ \E c \in Doctors, id \in PatientIds : GetPatient(c, id)
    \/ \E c \in Doctors, id \in AppointmentIds : GetAppointment(c, id)
    \/ \E c \in Doctors, id \in RecordIds : GetRecord(c, id)

SpecDoctor == Init /\ [][NextDoctor]_vars

(***************************************************************************)
(* What customers write: patients register, an admin adds a patient and a  *)
(* doctor, anyone books, and customers update and delete appointments.     *)
(***************************************************************************)
NextOwnership ==
    \/ \E cred \in Creds, name \in Names : Register(cred, name)
    \/ \E c \in Admins, b \in GoodPatients : CreatePatient(c, b)
    \/ \E c \in Admins : CreateDoctor(c, <<"u2", "e2@x.org">>)
    \/ \E c \in Callers, p \in RawPatientIds, d \in RawDoctorIds, date \in Dates,
          time \in Times : PostStart(c, p, d, date, time, 1)
    \/ \E q \in InFlight : PostPatient(q)
    \/ \E q \in InFlight : PostDoctor(q)
    \/ \E q \in InFlight : PostConflict(q)
    \/ \E q \in InFlight : PostInsert(q)
    \/ \E c \in Customers, id \in AppointmentIds, date \in Dates \cup {NullText},
          time \in Times, status \in BodyStatuses :
              PutAppointment(c, id, date, time, status)
    \/ \E c \in Customers, id \in AppointmentIds : DeleteAppointment(c, id)

SpecOwnership == Init /\ [][NextOwnership]_vars

(***************************************************************************)
(* Accounts: registration, and the admin's management of doctors, admins   *)
(* and patients.                                                           *)
(***************************************************************************)
NextAccounts ==
    \/ \E cred \in Creds, name \in Names : Register(cred, name)
    \/ \E c \in Callers, cred \in Creds : CreateDoctor(c, cred)
    \/ \E c \in Callers, cred \in Creds : CreateAdmin(c, cred)
    \/ \E c \in Callers, id \in UserIds : DeleteAdmin(c, ToString(id))
    \/ \E c \in Callers, id \in PatientIds : DeletePatient(c, id)
    \/ \E c \in Callers, id \in DoctorIds : DeleteDoctor(c, id)

SpecAccounts == Init /\ [][NextAccounts]_vars

(***************************************************************************)
(* A database file written before users had patient_id and doctor_id:      *)
(* initDatabase adds the two columns, and the users it finds have neither. *)
(***************************************************************************)
LegacyCustomer ==
    [id |-> 2, username |-> "old1", email |-> "old1@x.org",
     role |-> "customer", patient_id |-> NULL, doctor_id |-> NULL]

LegacyDoctor ==
    [id |-> 3, username |-> "old2", email |-> "old2@x.org",
     role |-> "doctor", patient_id |-> NULL, doctor_id |-> NULL]

InitLegacy ==
    /\ users = {DefaultAdmin, LegacyCustomer, LegacyDoctor}
    /\ patients = {}
    /\ doctors = {}
    /\ appointments = {}
    /\ records = {}
    /\ seq = [users |-> 3, patients |-> 0, doctors |-> 0, appointments |-> 0,
              records |-> 0]
    /\ stale = {}
    /\ reqs = EmptyBag
    /\ pending = EmptyBag
    /\ now = ClockStart
    /\ codes = NoCodes
    /\ resp = NoResponse

NextLegacy ==
    \/ \E c \in Admins, b \in GoodPatients : CreatePatient(c, b)
    \/ \E c \in Admins : CreateDoctor(c, <<"u1", "e1@x.org">>)
    \/ \E c \in Admins, p \in RawIds(MaxPatients), d \in RawDoctorIds,
          date \in Dates, time \in Times : PostStart(c, p, d, date, time, 1)
    \/ \E q \in InFlight : PostPatient(q)
    \/ \E q \in InFlight : PostDoctor(q)
    \/ \E q \in InFlight : PostConflict(q)
    \/ \E q \in InFlight : PostInsert(q)
    \/ \E c \in Admins, p \in RawIds(MaxPatients), d \in RawDoctorIds :
          CreateRecord(c, p, d)
    \/ \E c \in Callers \ Admins, date \in DateFilters, status \in StatusFilters,
          p \in PatientFilters, d \in DoctorFilters :
              ListAppointments(c, date, status, p, d)
    \/ \E c \in Callers \ Admins, p \in PatientFilters, d \in DoctorFilters :
          ListRecords(c, p, d)
    \/ \E c \in Callers \ Admins, search \in SearchTerms \cup {NullText},
          page \in Pages, limit \in Limits : ListPatients(c, search, page, limit)

SpecLegacy == InitLegacy /\ [][NextLegacy]_vars

(***************************************************************************)
(* Slots.                                                                  *)
(***************************************************************************)
\* the rows that hold the slot a booking request asks for
SlotRows(q) ==
    {a \in appointments : /\ a.doctor_id = SqlInt(q.doctor)
                          /\ a.date = q.date
                          /\ a.time = q.time}

SameSlot(a, b) == a.doctor_id = b.doctor_id /\ a.date = b.date /\ a.time = b.time

\* C1: in every reachable state, each (doctor, date, time) holds at most one
\* appointment whose status is other than 'cancelled'.
C1_OneActivePerSlot ==
    \A a, b \in appointments :
        (a.id # b.id /\ SameSlot(a, b)) =>
            (a.status = "cancelled" \/ b.status = "cancelled")

\* C2: of two bookings of one slot that run concurrently only one is created: a
\* booking's INSERT never succeeds while an appointment created by another
\* booking holds its slot.
C2_OneConcurrentBookingWins ==
    [][\A q \in InFlight :
          (PostInsert(q) /\ resp'.status = 201) =>
              ~\E a \in SlotRows(q) : a.status # "cancelled"]_vars

\* C3: the conflict check of a booking that passed the earlier checks answers
\* 400 'Time slot already booked' exactly when some row of its slot has a status
\* other than 'cancelled'; otherwise the booking goes on to its INSERT.
C3_ConflictIffActiveRow ==
    [][\A q \in InFlight :
          PostConflict(q) =>
              /\ (resp'.op = "createAppointment" /\ resp'.status = 400 /\ Leaves(q))
                    <=> (\E a \in SlotRows(q) : a.status # "cancelled")
              /\ (~\E a \in SlotRows(q) : a.status # "cancelled")
                    => Goes(q, "insert")]_vars

\* C4: a booking of a slot whose appointments are all cancelled (and at least one
\* is) passes the conflict check, and its INSERT, unless the table refuses the
\* generated appointment_id (500), adds a new 'scheduled' appointment of that
\* slot and answers 201.
CancelledOnly(q) ==
    /\ SlotRows(q) # {}
    /\ \A a \in SlotRows(q) : a.status = "cancelled"

Caller == [id |-> resp.uid, role |-> resp.role]

\* the patient a returned row belongs to: a patients row is its own patient
PatientOf(r) == IF resp.op \in {"listPatients", "getPatient"} THEN r.id ELSE r.patient_id

\* C5: whatever filters a customer puts in the query string, GET /patients,
\* GET /appointments and GET /medical-records answer 200 with rows of the patient
\* linked to the customer's user row only.
C5_CustomerListsOwnRows ==
    (/\ resp.role = "customer"
     /\ resp.op \in {"listPatients", "listAppointments", "listRecords"})
        => /\ resp.status = 200
           /\ \A r \in resp.rows : PatientOf(r) = LinkedPatient(Caller)

\* a customer has listed appointments, got some, and another patient's
\* appointment is in the table
C5_Witness ==
    /\ resp.role = "customer" /\ resp.op = "listAppointments"
    /\ resp.rows # {}
    /\ \E a \in appointments : a.patient_id # LinkedPatient(Caller)

\* C6: GET /patients/:id, GET /appointments/:id and GET /medical-records/:id
\* never return to a customer a row of a patient other than the one linked to the
\* customer's user row.
C6_CustomerReadsOwnRows ==
    (/\ resp.role = "customer"
     /\ resp.op \in {"getPatient", "getAppointment", "getRecord"})
        => \A r \in resp.rows : PatientOf(r) = LinkedPatient(Caller)

\* the doctor a returned row is linked to: an appointment or a record names its
\* doctor; a patient is linked to the doctors of its appointments and records
LinkedToDoctor(r, d) ==
    IF resp.op \in {"listPatients", "getPatient"}
    THEN \E x \in appointments \cup records : x.patient_id = r.id /\ x.doctor_id = d
    ELSE r.doctor_id = d

\* C7: the lists and the reads by id of patients, appointments and medical
\* records return to a doctor only rows linked to the doctor id of the doctor's
\* user row.
C7_DoctorReadsOwnRows ==
    (/\ resp.role = "doctor"
     /\ resp.op \in {"listPatients", "listAppointments", "listRecords",
                     "getPatient", "getAppointment", "getRecord"})
        => \A r \in resp.rows : LinkedToDoctor(r, LinkedDoctor(Caller))

\* C10: GET /patients, GET /appointments and GET /medical-records answer a
\* customer whose user row has no patient_id, and a doctor whose user row has no
\* doctor_id, with 200 and no row.
C10_UnlinkedListsEmpty ==
    (/\ resp.op \in {"listPatients", "listAppointments", "listRecords"}
     /\ \/ resp.role = "customer" /\ LinkedPatient(Caller) = NULL
        \/ resp.role = "doctor" /\ LinkedDoctor(Caller) = NULL)
        => resp.status = 200 /\ resp.rows = {}

(***************************************************************************)
(* Ownership and links.                                                    *)
(***************************************************************************)
\* the appointment a request names belongs to another patient than the caller's
OthersAppointment(c, id) ==
    \E a \in appointments : a.id = id /\ a.patient_id # LinkedPatient(c)

Refused == resp'.status = 403 /\ appointments' = appointments

\* C8: a customer's create for a patient other than the customer's own, and a
\* customer's update or delete of an appointment of another patient, are
\* answered 403 and leave the appointments table as it was.
C8_CustomerWritesOwnAppointments ==
    [][\A c \in Customers :
          /\ \A p \in RawIds(MaxPatients), d \in RawDoctorIds, date \in Dates,
                time \in Times :
                  (PostStart(c, p, d, date, time, 1) /\ SqlInt(p) # LinkedPatient(c))
                      => (Refused /\ reqs' = reqs)
          /\ \A id \in AppointmentIds :
                /\ \A date \in Dates \cup {NullText}, time \in Times,
                      status \in BodyStatuses :
                        (PutAppointment(c, id, date, time, status)
                            /\ OthersAppointment(c, id)) => Refused
                /\ (DeleteAppointment(c, id) /\ OthersAppointment(c, id))
                      => Refused]_vars

\* C9: every customer's user row names one existing patient and no doctor,
\* every doctor's user row names one existing doctor and no patient, and an
\* admin's user row names neither.
C9_UserLinks ==
    \A u \in users :
        /\ u.role = "customer" =>
              /\ \E p \in patients : p.id = u.patient_id
              /\ u.doctor_id = NULL
        /\ u.role = "doctor" =>
              /\ \E d \in doctors : d.id = u.doctor_id
              /\ u.patient_id = NULL
        /\ u.role = "admin" => (u.patient_id = NULL /\ u.doctor_id = NULL)

(***************************************************************************)
(* Patients: anyone registers, every caller sends POST /patients with      *)
(* every body, admins delete patients and add a doctor.                    *)
(***************************************************************************)
NextPatients ==
    \/ \E cred \in Creds, name \in Names : Register(cred, name)
    \/ \E c \in Admins : CreateDoctor(c, <<"u2", "e2@x.org">>)
    \/ \E c \in Callers, b \in PatientBodies : CreatePatient(c, b)
    \/ \E c \in Admins, id \in PatientIds : DeletePatient(c, id)

SpecPatients == Init /\ [][NextPatients]_vars

\* a required field of the body is absent or empty
FieldMissing(b) ==
    \E f \in {"first_name", "last_name", "date_of_birth", "gender"} :
        b[f] = NullText \/ b[f] = ""

\* C11 as stated: whoever sends it, a POST /patients with a required field absent
\* or empty is answered 400 (validation failed) and inserts no row.
C11_MissingFieldRejected ==
    [][\A c \in Callers, b \in PatientBodies :
          (CreatePatient(c, b) /\ FieldMissing(b)) =>
              (resp'.status = 400 /\ patients' = patients)]_vars

\* C11: a POST /patients with a required field absent or empty inserts no row;
\* it is answered 400 (validation failed) when an admin sends it, and 403 when
\* another role does, since the role is checked before the body.
C11_MissingFieldRejectedForAdmin ==
    [][\A c \in Callers, b \in PatientBodies :
          (CreatePatient(c, b) /\ FieldMissing(b)) =>
              /\ patients' = patients /\ seq' = seq
              /\ resp'.status = IF c.role = "admin" THEN 400 ELSE 403]_vars

\* an admin's POST /patients has been refused by validation while the table
\* has room for the row
C11_Witness ==
    /\ resp.op = "createPatient" /\ resp.role = "admin" /\ resp.status = 400
    /\ seq.patients < MaxPatients

(***************************************************************************)
(* Admin accounts: admins create and delete admins; the ids of the path    *)
(* are numerals, and one numeric literal that is not a numeral.            *)
(***************************************************************************)
RawUserIds == RawIds(MaxUsers) \cup {"10e-1"}

NextAdmins ==
    \/ \E c \in Admins, cred \in Creds : CreateAdmin(c, cred)
    \/ \E c \in Admins, id \in RawUserIds : DeleteAdmin(c, id)

SpecAdmins == Init /\ [][NextAdmins]_vars

\* the admin's own user row is in the table
Present(c) == \E u \in users : u.id = c.id /\ u.role = c.role

\* C12: a DELETE /admins/:id whose id designates the calling admin's own user row
\* is refused (403, or the 400 with which the handler refuses a self-delete), and
\* the caller's user row is still in the table afterwards.
C12_SelfDeleteRefused ==
    [][\A c \in Admins, id \in RawUserIds :
          (DeleteAdmin(c, id) /\ Present(c) /\ SqlInt(id) = c.id) =>
              /\ resp'.status \in {400, 403}
              /\ \E u \in users' : u.id = c.id]_vars

\* who sends the request that the step answers
NextCaller == [id |-> resp'.uid, role |-> resp'.role]

\* C13: a DELETE /admins/:id sent by an admin whose id designates another user
\* that is an admin answers 200 and removes that row and no other; and the request
\* never removes a user that is not an admin.
C13_DeleteOtherAdmin ==
    [][\A id \in RawUserIds :
          (DeleteAdmin(NextCaller, id) /\ NextCaller.role = "admin") =>
              /\ (/\ SqlInt(id) # NextCaller.id
                  /\ \E u \in users : u.id = SqlInt(id) /\ u.role = "admin")
                    => /\ resp'.status = 200
                       /\ users' = {u \in users : u.id # SqlInt(id)}
              /\ \A u \in users : u.role # "admin" => u \in users']_vars

(***************************************************************************)
(* References of a booking: patients register, an admin adds and deletes   *)
(* patients and doctors, and every caller books, one booking at a time.    *)
(***************************************************************************)
NextRefs ==
    \/ \E cred \in Creds, name \in Names : Register(cred, name)
    \/ \E c \in Admins, b \in GoodPatients : CreatePatient(c, b)
    \/ \E c \in Admins : CreateDoctor(c, <<"u2", "e2@x.org">>)
    \/ \E c \in Admins, id \in PatientIds : DeletePatient(c, id)
    \/ \E c \in Admins, id \in DoctorIds : DeleteDoctor(c, id)
    \/ \E c \in Callers, p \in RawPatientIds, d \in RawDoctorIds,
          date \in Dates \cup {NullText}, time \in {"09:00"} :
              PostStart(c, p, d, date, time, 1)
    \/ \E q \in InFlight : PostPatient(q)
    \/ \E q \in InFlight : PostDoctor(q)
    \/ \E q \in InFlight : PostConflict(q)
    \/ \E q \in InFlight : PostInsert(q)

SpecRefs == Init /\ [][NextRefs]_vars

\* the patient or the doctor a booking names is not in its table
NoPatient(p) == ~\E x \in patients : x.id = SqlInt(p)
NoDoctor(d) == ~\E x \in doctors : x.id = SqlInt(d)

\* the step answers 404 and ends the booking without a row
NotFound(q) ==
    /\ resp'.op = "createAppointment" /\ resp'.status = 404
    /\ Leaves(q)
    /\ appointments' = appointments

NoAppointment(id) == ~\E a \in appointments : a.id = id

\* C15: a PUT /appointments/:id or DELETE /appointments/:id whose id is the id of
\* no appointment is answered 404, whatever the caller's role, and leaves the
\* appointments table as it was.
C15_MissingAppointmentNotFound ==
    [][\A id \in AppointmentIds :
          NoAppointment(id) =>
              /\ \A date \in Dates \cup {NullText}, time \in Times,
                    status \in BodyStatuses :
                      PutAppointment(NextCaller, id, date, time, status)
                          => (resp'.status = 404 /\ appointments' = appointments)
              /\ DeleteAppointment(NextCaller, id)
                    => (resp'.status = 404 /\ appointments' = appointments)]_vars

(***************************************************************************)
(* Accounts under concurrency: registrations and the admin's creations of  *)
(* doctors and admins interleave statement by statement.                   *)
(***************************************************************************)
NextSignup ==
    \/ \E cred \in Creds, name \in Names : RegisterCheck(cred, name)
    \/ \E q \in Pending : RegisterPatient(q)
    \/ \E q \in Pending : RegisterUser(q)
    \/ \E c \in Callers, cred \in Creds : DoctorCheck(c, cred)
    \/ \E q \in Pending : DoctorRow(q)
    \/ \E q \in Pending : DoctorUser(q)
    \/ \E c \in Callers, cred \in Creds : AdminCheck(c, cred)
    \/ \E q \in Pending : AdminUser(q)

SpecSignup == Init /\ [][NextSignup]_vars

\* the step is the INSERT INTO users of the request
UserInsert(q) == RegisterUser(q) \/ DoctorUser(q) \/ AdminUser(q)

\* C16: a registration, create-doctor or create-admin request whose email or
\* username is taken is answered 400 (user already exists) and adds no user row,
\* both when the name is taken as the request arrives and when a concurrent
\* request takes it before this one inserts.
C16_DuplicateCredentialsConflict ==
    [][/\ \A cred \in Creds :
             ExistingUser(cred) =>
                 /\ (\E name \in Names : RegisterCheck(cred, name))
                       => (resp'.status = 400 /\ users' = users)
                 /\ (DoctorCheck(NextCaller, cred) \/ AdminCheck(NextCaller, cred))
                       => (resp'.status \in {400, 403} /\ users' = users)
       /\ \A q \in Pending :
             (UserInsert(q) /\ ExistingUser(q.cred))
                 => (resp'.status = 400 /\ users' = users)]_vars

(***************************************************************************)
(* External ids: the creations of patients, doctors, appointments and      *)
(* medical records with the clock.  Several requests may be served within  *)
(* one millisecond, and the 8-digit suffix comes round again after 10^8 ms.*)
(***************************************************************************)
NextIds ==
    \/ Tick
    \/ \E c \in Admins, b \in GoodPatients : CreatePatientAt(c, b)
    \/ \E c \in Admins, id \in 1..MaxPatients : DeletePatientAt(c, id)
    \/ \E c \in Admins : CreateDoctorAt(c, <<"u2", "e2@x.org">>)
    \/ \E c \in Admins, d \in Dates, t \in Times : PostStart(c, "1", "1", d, t, 1)
    \/ \E q \in InFlight : PostPatient(q)
    \/ \E q \in InFlight : PostDoctor(q)
    \/ \E q \in InFlight : PostConflict(q)
    \/ \E q \in InFlight : PostInsertAt(q)
    \/ \E c \in Admins : CreateRecordAt(c, "1", "1")

SpecIds == Init /\ [][NextIds]_vars

\* the rows of a table
Rows(table) ==
    CASE table = "patients" -> patients
      [] table = "doctors" -> doctors
      [] table = "appointments" -> appointments
      [] table = "records" -> records

\* the external ids of a table's rows are pairwise distinct, one to each row
DistinctCodes(table) ==
    /\ {k.id : k \in codes[table]} = {r.id : r \in Rows(table)}
    /\ \A k1, k2 \in codes[table] : k1.code = k2.code => k1 = k2

\* the step is a create request on the table that reported success
Created(table) ==
    /\ resp'.status = 201
    /\ resp'.op = CASE table = "patients" -> "createPatient"
                    [] table = "doctors" -> "createDoctor"
                    [] table = "appointments" -> "createAppointment"
                    [] table = "records" -> "createRecord"

\* C17: in every reachable state no two rows of a table carry the same external
\* id, also when two creations run at the same clock value (or 10^8 ms apart);
\* every create request that reports success has added a row whose external id
\* no other row of its table carries.
C17_ExternalIdsUnique ==
    /\ [](\A table \in Tables : DistinctCodes(table))
    /\ [][\A table \in Tables :
             Created(table) =>
                 \E k \in codes'[table] \ codes[table] :
                     /\ k.id = resp'.target
                     /\ k.code = ExternalId(CASE table = "patients" -> "PAT"
                                              [] table = "doctors" -> "DOC"
                                              [] table = "appointments" -> "APT"
                                              [] table = "records" -> "REC", now)
                     /\ \A o \in codes'[table] : o.code = k.code => o = k]_vars

\* two rows of a table were created at the same clock value, or 10^8 ms apart,
\* after a creation at the first row's instant was refused
C17_Witness ==
    /\ Cardinality(codes["patients"]) = 2
    /\ now >= Modulus
    /\ \E k \in codes["patients"] : k.code = ExternalId("PAT", now)
    /\ resp.op = "createPatient" /\ resp.status = 500

\* C18: of any two external ids, the one generated at the earlier clock value has
\* the smaller 8-digit suffix.
C18_SuffixMonotonic ==
    \A t1, t2 \in Tables : \A k1 \in codes[t1], k2 \in codes[t2] :
        k1.at < k2.at => SuffixNumber(k1.at) < SuffixNumber(k2.at)

\* C19: in every reachable state the status of every appointment is one of
\* 'scheduled', 'completed' and 'cancelled'.
C19_StatusDomain == \A a \in appointments : a.status \in Statuses

(***************************************************************************)
(* What admins list: admins add patients, a doctor and a second admin,     *)
(* appointments are booked one at a time and updated, records are written, *)
(* and every admin lists patients, appointments and records with any query *)
(* string.                                                                 *)
(***************************************************************************)
NextAdminLists ==
    \/ \E c \in Admins, b \in GoodPatients : CreatePatient(c, b)
    \/ \E c \in Admins : CreateDoctor(c, <<"u1", "e1@x.org">>)
    \/ \E c \in Admins : CreateAdmin(c, <<"u2", "e2@x.org">>)
    \/ \E c \in Admins, p \in RawIds(MaxPatients), date \in Dates, time \in Times :
          PostStart(c, p, "1", date, time, 1)
    \/ \E q \in InFlight : PostPatient(q)
    \/ \E q \in InFlight : PostDoctor(q)
    \/ \E q \in InFlight : PostConflict(q)
    \/ \E q \in InFlight : PostInsert(q)
    \/ \E c \in Admins, id \in AppointmentIds, date \in Dates, status \in Statuses :
          PutAppointment(c, id, date, "10:00", status)
    \/ \E c \in Admins, p \in RawIds(MaxPatients) : CreateRecord(c, p, "1")
    \/ \E c \in Admins, date \in DateFilters, status \in StatusFilters,
          p \in {"1", NullText} : ListAppointments(c, date, status, p, NullText)
    \/ \E c \in Admins, p \in {"1", NullText}, d \in {"1", NullText} :
          ListRecords(c, p, d)
    \/ \E c \in Admins, search \in {"Bob", NullText}, page \in Pages,
          limit \in Limits : ListPatients(c, search, page, limit)

SpecAdminLists == Init /\ [][NextAdminLists]_vars

\* how many rows page holds when all has that many rows
PageSize(all, page, limit) ==
    LET rest == all - (page - 1) * limit
    IN  IF rest <= 0 THEN 0 ELSE IF rest < limit THEN rest ELSE limit

\* C20: an admin's list of appointments or of medical records with no filter in
\* the query string holds every row of the table, and an admin's list of patients
\* with no search term holds the rows of the requested page, drawn from all the
\* patients.
C20_AdminListsUnfiltered ==
    [][NextCaller.role = "admin" =>
          /\ ListAppointments(NextCaller, NullText, NullText, NullText, NullText)
                => resp'.rows = appointments
          /\ ListRecords(NextCaller, NullText, NullText) => resp'.rows = records
          /\ \A page \in Pages, limit \in Limits :
                ListPatients(NextCaller, NullText, page, limit) =>
                    /\ resp'.rows \subseteq patients
                    /\ Cardinality(resp'.rows) =
                           PageSize(Cardinality(patients), page, limit)
                    /\ \A p \in resp'.rows, q \in patients \ resp'.rows :
                           page = 1 => q.id < p.id]_vars

\* an admin other than the default one has listed the appointments of two
\* patients and received both
C20_Witness ==
    /\ resp.op = "listAppointments" /\ resp.role = "admin" /\ resp.uid # 1
    /\ resp.rows = appointments
    /\ \E a, b \in appointments : a.patient_id # b.patient_id
    /\ records # {}

(***************************************************************************)
(* Medical records written by doctors: an admin adds patients and two      *)
(* doctors, and the doctors create and update records.                     *)
(***************************************************************************)
NextRecords ==
    \/ \E c \in Admins, b \in GoodPatients : CreatePatient(c, b)
    \/ \E c \in Admins, cred \in {<<"u1", "e1@x.org">>, <<"u2", "e2@x.org">>} :
          CreateDoctor(c, cred)
    \/ \E c \in Doctors, p \in RawIds(MaxPatients), d \in RawDoctorIds :
          CreateRecord(c, p, d)
    \/ \E c \in Doctors, id \in RecordIds, diagnosis \in Diagnoses,
          visit \in VisitDates : PutRecord(c, id, diagnosis, visit)
    \/ \E c \in Admins, id \in RecordIds : DeleteRecord(c, id)

SpecRecords == Init /\ [][NextRecords]_vars

\* the request was answered with an error status
Rejected == resp'.status >= 400

\* C21: a doctor's create request that names another doctor, and a doctor's
\* update of a record of another doctor, are rejected and leave the table of
\* medical records unchanged.
C21_DoctorWritesOwnRecords ==
    [][NextCaller.role = "doctor" =>
          /\ \A p \in RawIds(MaxPatients), d \in RawDoctorIds :
                (CreateRecord(NextCaller, p, d) /\ SqlInt(d) # LinkedDoctor(NextCaller))
                    => (Rejected /\ records' = records)
          /\ \A id \in RecordIds, diagnosis \in Diagnoses, visit \in VisitDates :
                (/\ PutRecord(NextCaller, id, diagnosis, visit)
                 /\ \E m \in records : m.id = id /\ m.doctor_id # LinkedDoctor(NextCaller))
                    => (Rejected /\ records' = records)]_vars

(***************************************************************************)
(* A database in use for a while: the first customer registered as patient *)
(* 1, an admin created and deleted eight patients, and a second customer   *)
(* registered as patient 10 (AUTOINCREMENT never reuses an id).  Callers   *)
(* update and read patients and the admin deletes them.                    *)
(***************************************************************************)
FirstCustomer ==
    [id |-> 2, username |-> "u1", email |-> "e1@x.org",
     role |-> "customer", patient_id |-> 1, doctor_id |-> NULL]

LaterCustomer ==
    [id |-> 3, username |-> "u2", email |-> "e2@x.org",
     role |-> "customer", patient_id |-> 10, doctor_id |-> NULL]

InitGrown ==
    /\ users = {DefaultAdmin, FirstCustomer, LaterCustomer}
    /\ patients = {[id |-> 1, first_name |-> "Ann"], [id |-> 10, first_name |-> "Ann"]}
    /\ doctors = {}
    /\ appointments = {}
    /\ records = {}
    /\ seq = [users |-> 3, patients |-> 10, doctors |-> 0, appointments |-> 0,
              records |-> 0]
    /\ stale = {}
    /\ reqs = EmptyBag
    /\ pending = EmptyBag
    /\ now = ClockStart
    /\ codes = NoCodes
    /\ resp = NoResponse

\* the ids a caller writes in the path: a patient's id, or a numeral that
\* parseInt and SQLite read differently
GrownIds == {"1", "10", "10e-1"}

NextGrown ==
    \/ \E c \in Callers, id \in GrownIds, name \in BodyNames \ {NullText} :
          PutPatient(c, id, name)
    \/ \E c \in Admins, id \in {1, 10} : DeletePatient(c, id)
    \/ \E c \in Callers, id \in {1, 10} : GetPatient(c, id)

SpecGrown == InitGrown /\ [][NextGrown]_vars

\* C22: a customer's PUT /patients/:id on any patient other than the one linked
\* to the customer's user row is answered 403 and changes no patient row.
C22_CustomerUpdatesOwnPatient ==
    [][NextCaller.role = "customer" =>
          \A id \in GrownIds, name \in BodyNames :
              (PutPatient(NextCaller, id, name) /\ SqlInt(id) # LinkedPatient(NextCaller))
                  => (resp'.status = 403 /\ patients' = patients)]_vars

(***************************************************************************)
(* Admins under concurrency: users that are admins as they send the        *)
(* request create and delete admins, and the requests interleave statement *)
(* by statement.                                                           *)
(***************************************************************************)
PresentAdmins == {Token(u) : u \in {v \in users : v.role = "admin"}}

\* the ids of the path: the two oldest users, or a numeral that parseInt and
\* SQLite read differently
RaceIds == {"1", "2", "10e-1"}

NextAdminRace ==
    \/ \E c \in PresentAdmins, cred \in Creds : AdminCheck(c, cred)
    \/ \E q \in Pending : AdminUser(q)
    \/ \E c \in PresentAdmins, id \in RaceIds : AdminLookup(c, id)
    \/ \E q \in Pending : AdminRemove(q)

SpecAdminRace == Init /\ [][NextAdminRace]_vars

\* C23: in every reachable state, whatever the interleaving of the create-admin
\* and delete-admin requests of users that were admins as they sent them, the
\* users table holds at least one admin.
C23_SomeAdminRemains == \E u \in users : u.role = "admin"

\* C24: when a registration request completes, with success or with an error,
\* the patient row it created exists if and only if a customer user row linked
\* to that patient exists.
C24_RegistrationAllOrNothing ==
    [][\A q \in Pending :
          RegisterUser(q) =>
              ((\E p \in patients' : p.id = q.link)
                  <=> (\E u \in users' : u.role = "customer" /\ u.patient_id = q.link))]_vars

\* C25: in every reachable state every appointment and every medical record
\* references a patient row and a doctor row that exist.
C25_ReferencesExist ==
    \A x \in appointments \cup records :
        /\ \E p \in patients : p.id = x.patient_id
        /\ \E d \in doctors : d.id = x.doctor_id

(***************************************************************************)
(* Updates of appointments: an admin adds patients and a doctor, bookings  *)
(* are made one at a time as the clock moves on, and the admin updates     *)
(* appointments.                                                           *)
(***************************************************************************)
\* the status of an update's body: one of the three, or none
UpdateStatuses == {"completed", NullText}

NextUpdates ==
    \/ Tick
    \/ \E c \in Admins, b \in GoodPatients : CreatePatientAt(c, b)
    \/ \E c \in Admins : CreateDoctorAt(c, <<"u1", "e1@x.org">>)
    \/ \E c \in Admins, time \in Times : PostStart(c, "1", "1", "2025-01-06", time, 1)
    \/ \E q \in InFlight : PostPatient(q)
    \/ \E q \in InFlight : PostDoctor(q)
    \/ \E q \in InFlight : PostConflict(q)
    \/ \E q \in InFlight : PostInsertAt(q)
    \/ \E c \in Admins, id \in AppointmentIds, date \in Dates \cup {NullText},
          status \in UpdateStatuses : PutAppointment(c, id, date, "10:00", status)

SpecUpdates == Init /\ [][NextUpdates]_vars

====
